---- MODULE Spec2Model ----
(***************************************************************************)
(* Verification model of proseg 1.1.7:                                     *)
(*   - sampler/connectivity.rs : ConnectivityChecker (hex_isarticulation)  *)
(*   - sampler/polygons.rs     : PolygonBuilder, antialias_polygon,        *)
(*                               simplify_polygon                          *)
(*   - main.rs                 : the sampling schedule of main and         *)
(*                               run_hexbin_sampler                        *)
(* The specifications of this module: SpecConn (voxel moves guarded by     *)
(* the connectivity checker), SpecQuery (calls of one checker), SpecPoly   *)
(* (boundary tracing of one cell), SpecPolyFair (the same under the        *)
(* fairness of a sequential call) and SpecRun (the schedule of a whole     *)
(* run).  Each leaves the variables of the others at their idle values.    *)
(***************************************************************************)
EXTENDS Integers, Sequences, FiniteSets, TLC

VARIABLES
    \* --- SpecConn, SpecQuery: the partition state and the checker ---
    cells,          \* voxel (Hex) -> region id, the partition state
    query,          \* arguments and result of the last hex_isarticulation call
    checker,        \* the fields of the ConnectivityChecker
    \* --- SpecPoly: one call of PolygonBuilder::cell_voxels_to_polygons ---
    voxels,         \* the member voxels (Cube) of the cell
    edges,          \* PolygonBuilder.edges
    visited,        \* PolygonBuilder.visited
    k,              \* the layer being traced
    first,          \* edges_k = edges[first..last], the edges of layer k
    last,
    nvisited,       \* visited edges of layer k
    polygon,        \* the ring being walked, corner by corner
    u,              \* the corner the walk came from
    v,              \* the corner the walk stands on
    smoothed,       \* the last ring after antialias_polygon
    polygons_k,     \* the finished rings of layer k
    multipolygons,  \* the result: one entry (k, rings) per layer
    pc,             \* position in cell_voxels_to_polygons
    \* --- SpecRun: main and run_hexbin_sampler ---
    schedule,                    \* args.schedule
    recorded_samples,            \* args.recorded_samples
    check_consistency,           \* args.check_consistency
    monitor_cell_polygons,       \* args.monitor_cell_polygons is Some
    monitor_cell_polygons_freq,  \* args.monitor_cell_polygons_freq
    total_steps,                 \* main's total_steps
    resolution,                  \* number of times the voxel grid was refined
    entry,                       \* index of the schedule entry of the for loop
    main_pc,                     \* position in main
    run_pc,                      \* position in run_hexbin_sampler
    niter,                       \* run_hexbin_sampler's niter
    iter,                        \* iterations of `for _ in 0..niter` done
    uncertainty,                 \* run_hexbin_sampler's uncertainty is Some
    burnin,                      \* run_hexbin_sampler's burnin
    trace                        \* the calls made so far, in order

varsConn == <<cells, query, checker>>

varsPoly == <<voxels, edges, visited, k, first, last, nvisited, polygon, u, v, smoothed,
              polygons_k, multipolygons, pc>>

varsRun == <<schedule, recorded_samples, check_consistency, monitor_cell_polygons,
             monitor_cell_polygons_freq, total_steps, resolution, entry, main_pc,
             run_pc, niter, iter, uncertainty, burnin, trace>>

vars == <<cells, query, checker, voxels, edges, visited, k, first, last, nvisited, polygon, u, v,
          smoothed, polygons_k, multipolygons, pc,
          schedule, recorded_samples, check_consistency, monitor_cell_polygons,
          monitor_cell_polygons_freq, total_steps, resolution, entry, main_pc,
          run_pc, niter, iter, uncertainty, burnin, trace>>

\* the run variables while no run is modelled
IdleRun ==
    /\ schedule = << >>
    /\ recorded_samples = 0
    /\ check_consistency = FALSE
    /\ monitor_cell_polygons = FALSE
    /\ monitor_cell_polygons_freq = 0
    /\ total_steps = 0
    /\ resolution = 0
    /\ entry = 0
    /\ main_pc = "idle"
    /\ run_pc = "idle"
    /\ niter = 0
    /\ iter = 0
    /\ uncertainty = FALSE
    /\ burnin = FALSE
    /\ trace = << >>

(***************************************************************************)
(* Generic helpers                                                         *)
(***************************************************************************)
Min(a, b) == IF a <= b THEN a ELSE b

Abs(a) == IF a < 0 THEN -a ELSE a

Reverse(s) == [x \in 1..Len(s) |-> s[Len(s) + 1 - x]]

Range(s) == {s[x] : x \in 1..Len(s)}

(***************************************************************************)
(* Bounds of the connectivity model                                        *)
(***************************************************************************)
\* the partition covers the hexes (q, r) with 0 <= q <= MaxQ
MaxQ == 2

\* three rows of hexes, the rows of the end-to-end scenario's block
Grid == (0..MaxQ) \X (0..2)

\* region ids of the cells; region 5 is the one of the end-to-end scenario
Regions == {5, 6}

\* the reserved "no cell" region id; only equality with it matters, and the
\* largest integer of the model stands for the program's largest u32
BACKGROUND_CELL == 2147483647

(***************************************************************************)
(* connectivity.rs                                                         *)
(***************************************************************************)
\* NodeIndex::end(), the parent of the DFS root
NodeIndexEnd == -1

\* Hex::all_neighbors(): the six axial neighbours, in the library's order
AllNeighbors(h) ==
    << <<h[1] + 1, h[2]>>, <<h[1] + 1, h[2] - 1>>, <<h[1], h[2] - 1>>,
       <<h[1] - 1, h[2]>>, <<h[1] - 1, h[2] + 1>>, <<h[1], h[2] + 1>> >>

\* the closure `hexcell` handed to the checker: region of a hex, background
\* for a hex that holds no voxel
Lookup(cs, h) == IF h \in DOMAIN cs THEN cs[h] ELSE BACKGROUND_CELL

\* HexToSubgraph without the test `cell == neighbor_cell`: every neighbour
\* of the root becomes a node
HexToSubgraphAll(root, cs, cell) ==
    LET nbrs == AllNeighbors(root)
    IN  [h \in {root} \cup Range(nbrs) |->
            IF h = root THEN 0 ELSE CHOOSE x \in 1..Len(nbrs) : nbrs[x] = h]

\* first loop of construct_hex_subgraph: node 0 is the root, the neighbours
\* of the root that belong to `cell` get the next node indices in order
HexToSubgraph(root, cs, cell) ==
    LET nbrs == SelectSeq(AllNeighbors(root), LAMBDA n : Lookup(cs, n) = cell)
    IN  [h \in {root} \cup Range(nbrs) |->
            IF h = root THEN 0 ELSE CHOOSE x \in 1..Len(nbrs) : nbrs[x] = h]

\* NeighborEdges that links a neighbour back to the root only, not to the
\* other neighbours of the root around it
NeighborEdgesRootOnly(h2s, cs, cell, n) ==
    LET ks == SelectSeq(AllNeighbors(n),
                        LAMBDA kh : kh \in DOMAIN h2s /\ Lookup(cs, kh) = cell
                                    /\ h2s[kh] = 0)
    IN  [x \in 1..Len(ks) |-> <<h2s[n], h2s[ks[x]]>>]

\* inner loop of construct_hex_subgraph: the edges from neighbour n to the
\* hexes around it that are nodes and belong to `cell`
NeighborEdges(h2s, cs, cell, n) ==
    LET ks == SelectSeq(AllNeighbors(n),
                        LAMBDA kh : kh \in DOMAIN h2s /\ Lookup(cs, kh) = cell)
    IN  [x \in 1..Len(ks) |-> <<h2s[n], h2s[ks[x]]>>]

RECURSIVE AddEdges(_, _, _, _, _)
RECURSIVE AddEdgesAroundRoot(_, _, _, _, _)

\* AddEdges whose inner loop runs over root.all_neighbors() instead of
\* neighbor.all_neighbors(): every neighbour node is linked to every other
AddEdgesAroundRoot(h2s, cs, cell, root, x) ==
    IF x > 6 THEN << >>
    ELSE LET n == AllNeighbors(root)[x]
             ks == SelectSeq(AllNeighbors(root),
                             LAMBDA kh : kh \in DOMAIN h2s /\ Lookup(cs, kh) = cell)
         IN  (IF n \in DOMAIN h2s
                 THEN << <<h2s[root], h2s[n]>> >>
                      \o [y \in 1..Len(ks) |-> <<h2s[n], h2s[ks[y]]>>]
                 ELSE << >>)
             \o AddEdgesAroundRoot(h2s, cs, cell, root, x + 1)

\* second loop of construct_hex_subgraph, from the x-th neighbour on: the
\* edge list in the order add_edge is called
AddEdges(h2s, cs, cell, root, x) ==
    IF x > 6 THEN << >>
    ELSE LET n == AllNeighbors(root)[x]
         IN  (IF n \in DOMAIN h2s
                 THEN << <<h2s[root], h2s[n]>> >> \o NeighborEdges(h2s, cs, cell, n)
                 ELSE << >>)
             \o AddEdges(h2s, cs, cell, root, x + 1)

\* construct_hex_subgraph: the scratch graph of one query
ConstructHexSubgraph(root, cs, cell) ==
    LET h2s == HexToSubgraph(root, cs, cell)
    IN  [hex_to_subgraph |-> h2s,
         subgraph |-> AddEdges(h2s, cs, cell, root, 1)]

\* Graph::neighbors(i) of an undirected petgraph graph: the edges leaving i,
\* newest first, then the edges entering i, newest first (parallel edges are
\* reported once each)
GraphNeighbors(subgraph, i) ==
    LET out == SelectSeq(subgraph, LAMBDA e : e[1] = i)
        inc == SelectSeq(subgraph, LAMBDA e : e[2] = i /\ e[1] # i)
    IN  Reverse([x \in 1..Len(out) |-> out[x][2]])
        \o Reverse([x \in 1..Len(inc) |-> inc[x][1]])

RECURSIVE is_articulation_dfs(_, _, _, _, _)
RECURSIVE DfsLoop(_, _, _, _, _, _, _, _, _)
RECURSIVE DfsLoopRootGt2(_, _, _, _, _, _, _, _, _)
\* the `for j in subgraph.neighbors(i)` loop of is_articulation_dfs, from
\* the x-th neighbour on; the root's verdict is overwritten with
\* child_count > 2 at the end of every iteration
DfsLoopRootGt2(subgraph, dfsinfo, i, parent, depth, js, x, child_count, is_articulation) ==
    IF x > Len(js)
    THEN [dfsinfo |-> dfsinfo, ret |-> is_articulation]
    ELSE IF js[x] \in DOMAIN dfsinfo
    THEN \* j was visited before: a back edge unless j is the parent
         LET info == IF js[x] # parent
                     THEN [dfsinfo EXCEPT ![i].low = Min(@, dfsinfo[js[x]].depth)]
                     ELSE dfsinfo
         IN  DfsLoopRootGt2(subgraph, info, i, parent, depth, js, x + 1, child_count,
                     IF info[i].parent = NodeIndexEnd
                     THEN child_count > 2 ELSE is_articulation)
    ELSE \* j is unvisited
         LET sub == is_articulation_dfs(subgraph, dfsinfo, js[x], i, depth + 1).dfsinfo
             j_info_low == sub[js[x]].low
         IN  DfsLoopRootGt2(subgraph, [sub EXCEPT ![i].low = Min(@, j_info_low)],
                     i, parent, depth, js, x + 1, child_count + 1,
                     IF sub[i].parent = NodeIndexEnd
                     THEN child_count + 1 > 2
                     ELSE (j_info_low >= sub[i].depth \/ is_articulation))

\* the `for j in subgraph.neighbors(i)` loop of is_articulation_dfs, from
\* the x-th neighbour on; the root's verdict is overwritten with
\* child_count > 1 at the end of every iteration
DfsLoop(subgraph, dfsinfo, i, parent, depth, js, x, child_count, is_articulation) ==
    IF x > Len(js)
    THEN [dfsinfo |-> dfsinfo, ret |-> is_articulation]
    ELSE IF js[x] \in DOMAIN dfsinfo
    THEN \* j was visited before: a back edge unless j is the parent
         LET info == IF js[x] # parent
                     THEN [dfsinfo EXCEPT ![i].low = Min(@, dfsinfo[js[x]].depth)]
                     ELSE dfsinfo
         IN  DfsLoop(subgraph, info, i, parent, depth, js, x + 1, child_count,
                     IF info[i].parent = NodeIndexEnd
                     THEN child_count > 1 ELSE is_articulation)
    ELSE \* j is unvisited
         LET sub == is_articulation_dfs(subgraph, dfsinfo, js[x], i, depth + 1).dfsinfo
             j_info_low == sub[js[x]].low
         IN  DfsLoop(subgraph, [sub EXCEPT ![i].low = Min(@, j_info_low)],
                     i, parent, depth, js, x + 1, child_count + 1,
                     IF sub[i].parent = NodeIndexEnd
                     THEN child_count + 1 > 1
                     ELSE (j_info_low >= sub[i].depth \/ is_articulation))

\* is_articulation_dfs: returns the DFS table and the verdict for node i
is_articulation_dfs(subgraph, dfsinfo, i, parent, depth) ==
    LET info == IF i \in DOMAIN dfsinfo
                THEN dfsinfo
                ELSE dfsinfo @@ (i :> [parent |-> parent, depth |-> depth, low |-> depth])
    IN  DfsLoop(subgraph, info, i, parent, depth,
                GraphNeighbors(subgraph, i), 1, 0, FALSE)

\* hex_isarticulation on a checker with fields chk, without the call
\* dfsinfo.clear(): the traversal starts on the table of the query before
HexIsArticulationStale(chk, root, cs, cell) ==
    LET g == ConstructHexSubgraph(root, cs, cell)
        built == [chk EXCEPT !.subgraph = g.subgraph,
                             !.hex_to_subgraph = g.hex_to_subgraph]
        r == is_articulation_dfs(built.subgraph, built.dfsinfo,
                                 built.hex_to_subgraph[root], NodeIndexEnd, 0)
    IN  [checker |-> [built EXCEPT !.dfsinfo = r.dfsinfo], ret |-> r.ret]

\* hex_isarticulation on a checker with fields chk: construct_hex_subgraph
\* clears and rebuilds subgraph and hex_to_subgraph, dfsinfo is cleared, and
\* the traversal fills it; returns the fields left behind and the verdict
HexIsArticulation(chk, root, cs, cell) ==
    LET g == ConstructHexSubgraph(root, cs, cell)
        built == [chk EXCEPT !.subgraph = g.subgraph,
                             !.hex_to_subgraph = g.hex_to_subgraph,
                             !.dfsinfo = << >>]
        r == is_articulation_dfs(built.subgraph, built.dfsinfo,
                                 built.hex_to_subgraph[root], NodeIndexEnd, 0)
    IN  [checker |-> [built EXCEPT !.dfsinfo = r.dfsinfo], ret |-> r.ret]

\* ConnectivityChecker::hex_isarticulation on a fresh checker
hex_isarticulation(root, cs, cell) ==
    LET g == ConstructHexSubgraph(root, cs, cell)
    IN  is_articulation_dfs(g.subgraph, << >>, g.hex_to_subgraph[root],
                            NodeIndexEnd, 0).ret

(***************************************************************************)
(* Region connectivity, computed by flood fill over the whole region       *)
(***************************************************************************)
Adjacent(a, b) == b \in Range(AllNeighbors(a))

RegionVoxels(cs, c) == {h \in DOMAIN cs : cs[h] = c}

RECURSIVE Flood(_, _)
Flood(S, R) ==
    LET R2 == R \cup {h \in S : \E n \in R : Adjacent(h, n)}
    IN  IF R2 = R THEN R ELSE Flood(S, R2)

\* an extinct (empty) region counts as connected
Connected(S) == S = {} \/ Flood(S, {CHOOSE h \in S : TRUE}) = S

\* a voxel with at least one planar neighbour outside its region
IsBoundary(cs, h) == \E x \in 1..6 : Lookup(cs, AllNeighbors(h)[x]) # cs[h]

(***************************************************************************)
(* SpecConn: the partition state under voxel moves                         *)
(***************************************************************************)
\* the end-to-end scenario: a 3x3 block of region 5 around a background centre
Block == (0..2) \X (0..2)

Corners == { <<0, 0>>, <<2, 0>>, <<0, 2>>, <<2, 2>> }

Block5 == [h \in Grid |-> IF h \in Block /\ h # <<1, 1>> THEN 5 ELSE BACKGROUND_CELL]

\* two cells side by side: region 5 on the line q = 0, region 6 elsewhere
Split56 == [h \in Grid |-> IF h[1] = 0 THEN 5 ELSE 6]

NoQuery == [root |-> <<0, 0>>, cell |-> BACKGROUND_CELL, ret |-> FALSE, reused |-> FALSE]

\* ConnectivityChecker::new
NewChecker == [subgraph |-> << >>, hex_to_subgraph |-> << >>, dfsinfo |-> << >>]

\* the polygon builder before any call
IdlePoly ==
    /\ voxels = {}
    /\ edges = << >>
    /\ visited = << >>
    /\ k = 0
    /\ first = 0
    /\ last = 0
    /\ nvisited = 0
    /\ polygon = << >>
    /\ u = <<0, 0>>
    /\ v = <<0, 0>>
    /\ smoothed = << >>
    /\ polygons_k = << >>
    /\ multipolygons = << >>
    /\ pc = "idle"

InitConn ==
    /\ cells \in {Block5, Split56}
    /\ query = NoQuery
    /\ checker = NewChecker
    /\ IdlePoly
    /\ IdleRun

\* candidate destinations of a move: background and the regions of the
\* neighbouring voxels, without the current region
Destinations(cs, h) ==
    ({BACKGROUND_CELL} \cup {Lookup(cs, AllNeighbors(h)[x]) : x \in 1..6}) \ {cs[h]}

\* one proposal of the reassignment sampler for voxel h: vetoed when the
\* source region is a cell and h is an articulation point of it, otherwise
\* committed or not as the model oracle decides.  The checker's fields are
\* scratch data of the query and are not followed here
Propose(h) ==
    LET veto == cells[h] # BACKGROUND_CELL /\ hex_isarticulation(h, cells, cells[h])
    IN  /\ ~veto
        /\ \E to \in Destinations(cells, h), oracle \in BOOLEAN :
               cells' = IF oracle THEN [cells EXCEPT ![h] = to] ELSE cells
        /\ UNCHANGED <<query, checker>>
        /\ UNCHANGED <<varsPoly, varsRun>>

NextConn == \E h \in Grid : Propose(h)

SpecConn == InitConn /\ [][NextConn]_vars

(***************************************************************************)
(* SpecQuery: hex_isarticulation applied to the voxels of connected cells  *)
(***************************************************************************)
\* the partitions queried: every connected shape of region 5 on the grid
QueryInputs == {cs \in [Grid -> {5, BACKGROUND_CELL}] : Connected(RegionVoxels(cs, 5))}

InitQuery ==
    /\ cells \in QueryInputs
    /\ query = NoQuery
    /\ checker = NewChecker
    /\ IdlePoly
    /\ IdleRun

\* the checker is asked whether `root`, a voxel of region `cell`, may leave it
Query(root, cell) ==
    /\ cells[root] = cell
    /\ LET r == HexIsArticulation(checker, root, cells, cell)
       IN  /\ query' = [root |-> root, cell |-> cell, ret |-> r.ret,
                        reused |-> checker # NewChecker]
           /\ checker' = r.checker
    /\ UNCHANGED cells
    /\ UNCHANGED <<varsPoly, varsRun>>

NextQuery == \E root \in Grid, cell \in Regions : Query(root, cell)

SpecQuery == InitQuery /\ [][NextQuery]_vars

BlockCornerQueried ==
    /\ cells = Block5
    /\ query.cell = 5
    /\ query.root \in Corners

\* C2 as stated: in the 3x3 block of region 5 with a background centre,
\* hex_isarticulation returns false for each of the four corners
C2_NoCornerBlocked == BlockCornerQueried => query.ret = FALSE

\* C2 as amended: hex_isarticulation returns false for the corners (0,0) and
\* (2,2) and true for the corners (2,0) and (0,2), whose two neighbours in
\* region 5 do not touch each other on the hexagonal tiling
C2_CornersByAdjacency ==
    BlockCornerQueried => (query.ret <=> query.root \in { <<2, 0>>, <<0, 2>> })

C2_Witness ==
    /\ BlockCornerQueried
    /\ query.root = <<0, 0>>
    /\ query.ret = FALSE

\* the checker was asked about a boundary voxel of a cell
BoundaryQueried ==
    /\ query.cell \in Regions
    /\ cells[query.root] = query.cell
    /\ Connected(RegionVoxels(cells, query.cell))
    /\ IsBoundary(cells, query.root)

\* the cell of the last query falls apart when the queried voxel leaves it
RemovalDisconnects ==
    ~Connected(RegionVoxels(cells, query.cell) \ {query.root})

\* C3 as stated: for a boundary voxel of a connected region,
\* hex_isarticulation returns true exactly when removing the voxel
\* disconnects the region
C3_ExactAtBoundary == BoundaryQueried => (query.ret <=> RemovalDisconnects)

\* C3 as amended: for a boundary voxel of a connected region,
\* hex_isarticulation returns true whenever removing the voxel disconnects
\* the region (it may also return true when the region stays connected)
C3_NeverMissesSplit == BoundaryQueried => (RemovalDisconnects => query.ret)

C3_Witness ==
    /\ BoundaryQueried
    /\ RemovalDisconnects
    /\ query.ret = TRUE

(***************************************************************************)
(* polygons.rs                                                             *)
(***************************************************************************)
\* bounds of the voxel sets handed to the polygon builder
\* small cells: all subsets of (0..MaxI) x (0..1) x (0..1), two rows in two layers
MaxI == 1

\* staircase cells: ProfileW columns of heights 0..ProfileH
ProfileW == 5

ProfileH == 5

\* Cube::new(i, j, k); a voxel is written <<i, j, k>>
CubeNew(i, j, kk) == <<i, j, kk>>

\* Cube::von_neumann_neighborhood_xy: the four planar neighbours
VonNeumannNeighborhoodXY(c) ==
    << CubeNew(c[1] - 1, c[2], c[3]), CubeNew(c[1] + 1, c[2], c[3]),
       CubeNew(c[1], c[2] - 1, c[3]), CubeNew(c[1], c[2] + 1, c[3]) >>

\* Cube::edge_xy: the two corner points of the side shared with a planar
\* neighbour; corner (i, j) is the corner of voxel (i, j, k) with the
\* smallest coordinates
EdgeXY(c, n) ==
    IF n[1] = c[1] - 1 THEN << <<c[1], c[2]>>, <<c[1], c[2] + 1>> >>
    ELSE IF n[1] = c[1] + 1 THEN << <<c[1] + 1, c[2]>>, <<c[1] + 1, c[2] + 1>> >>
    ELSE IF n[2] = c[2] - 1 THEN << <<c[1], c[2]>>, <<c[1] + 1, c[2]>> >>
    ELSE << <<c[1], c[2] + 1>>, <<c[1] + 1, c[2] + 1>> >>

\* reverse_edge
reverse_edge(edge) == <<edge[1], edge[3], edge[2]>>

\* next_point: the lexicographically next point
next_point(p) == <<p[1], p[2] + 1>>

\* the derived order of (i32, i32)
PointLess(p, q) == p[1] < q[1] \/ (p[1] = q[1] /\ p[2] < q[2])

\* the derived order of (i32, (i32, i32), (i32, i32)), used by sort_unstable,
\* partition_point and binary_search
EdgeLess(a, b) ==
    \/ a[1] < b[1]
    \/ a[1] = b[1] /\ PointLess(a[2], b[2])
    \/ a[1] = b[1] /\ a[2] = b[2] /\ PointLess(a[3], b[3])

\* slice::partition_point on a slice partitioned by P: the number of leading
\* elements that satisfy P
PartitionPoint(s, P(_)) == Cardinality({x \in 1..Len(s) : P(s[x])})

\* slice::binary_search on a sorted slice without duplicates: the position of
\* the element, 0 when it is absent (Err, on which unwrap panics)
BinarySearch(s, e) ==
    IF \E x \in 1..Len(s) : s[x] = e THEN CHOOSE x \in 1..Len(s) : s[x] = e ELSE 0

\* VoxelEdges testing membership of the voxel itself instead of the
\* neighbour: every side of every member voxel is emitted
VoxelEdgesAllSides(vs, c) ==
    LET nbrs == SelectSeq(VonNeumannNeighborhoodXY(c), LAMBDA n : c \in vs)
        Side(x) == EdgeXY(c, nbrs[x])
    IN  [y \in 1..(2 * Len(nbrs)) |->
            IF y % 2 = 1
            THEN <<c[3], Side((y + 1) \div 2)[1], Side((y + 1) \div 2)[2]>>
            ELSE <<c[3], Side(y \div 2)[2], Side(y \div 2)[1]>>]

\* body of the loop over the neighbours of one member voxel: both
\* orientations of every side whose neighbour is not a member
VoxelEdges(vs, c) ==
    LET nbrs == SelectSeq(VonNeumannNeighborhoodXY(c), LAMBDA n : n \notin vs)
        Side(x) == EdgeXY(c, nbrs[x])
    IN  [y \in 1..(2 * Len(nbrs)) |->
            IF y % 2 = 1
            THEN <<c[3], Side((y + 1) \div 2)[1], Side((y + 1) \div 2)[2]>>
            ELSE <<c[3], Side(y \div 2)[2], Side(y \div 2)[1]>>]

\* the loop `for voxel in voxels`, taking the voxels of `rest` in some order
RECURSIVE CollectEdges(_, _)
CollectEdges(vs, rest) ==
    IF rest = {} THEN << >>
    ELSE LET c == CHOOSE c \in rest : TRUE
         IN  VoxelEdges(vs, c) \o CollectEdges(vs, rest \ {c})

\* AntialiasKeeps with `&&` between the two distance tests: a turn is dropped
\* as soon as one of the two distances is 3
AntialiasKeepsBoth(p, a) ==
    LET p1 == p[a]
        uu == p[a + 1]
        vv == p[a + 2]
        ww == p[a + 3]
        p2 == p[a + 4]
    IN  IF ((vv[1] - uu[1] = 0) # (ww[1] - vv[1] = 0))
           /\ ((vv[2] - uu[2] = 0) # (ww[2] - vv[2] = 0))
        THEN /\ Abs(ww[1] - p1[1]) + Abs(ww[2] - p1[2]) # 3
             /\ Abs(uu[1] - p2[1]) + Abs(uu[2] - p2[2]) # 3
        ELSE TRUE

\* antialias_polygon: is v, the middle of the window starting at a, pushed?
AntialiasKeeps(p, a) ==
    LET p1 == p[a]
        uu == p[a + 1]
        vv == p[a + 2]
        ww == p[a + 3]
        p2 == p[a + 4]
        di_v == vv[1] - uu[1]
        dj_v == vv[2] - uu[2]
        di_w == ww[1] - vv[1]
        dj_w == ww[2] - vv[2]
    IN  IF ((di_v = 0) # (di_w = 0)) /\ ((dj_v = 0) # (dj_w = 0))
        THEN \/ Abs(ww[1] - p1[1]) + Abs(ww[2] - p1[2]) # 3
             \/ Abs(uu[1] - p2[1]) + Abs(uu[2] - p2[2]) # 3
        ELSE TRUE

\* antialias_polygon pushing u, the second point of the window, instead of v
antialias_polygon_u(p) ==
    IF Len(p) <= 5 THEN p
    ELSE LET windows == SelectSeq([a \in 1..(Len(p) - 4) |-> a],
                                  LAMBDA a : AntialiasKeeps(p, a))
         IN  <<p[1], p[2]>>
             \o [x \in 1..Len(windows) |-> p[windows[x] + 1]]
             \o <<p[Len(p) - 1], p[Len(p)]>>

\* antialias_polygon
antialias_polygon(p) ==
    IF Len(p) <= 5 THEN p
    ELSE LET windows == SelectSeq([a \in 1..(Len(p) - 4) |-> a],
                                  LAMBDA a : AntialiasKeeps(p, a))
         IN  <<p[1], p[2]>>
             \o [x \in 1..Len(windows) |-> p[windows[x] + 2]]
             \o <<p[Len(p) - 1], p[Len(p)]>>

\* simplify_polygon: is v, the middle of the window starting at a, pushed?
SimplifyKeeps(p, a) ==
    ~ (/\ p[a + 1][1] - p[a][1] = p[a + 2][1] - p[a + 1][1]
       /\ p[a + 1][2] - p[a][2] = p[a + 2][2] - p[a + 1][2])

\* simplify_polygon without the closing push of the first point
simplify_polygon_open(p) ==
    IF Len(p) <= 3 THEN p
    ELSE LET windows == SelectSeq([a \in 1..(Len(p) - 2) |-> a],
                                  LAMBDA a : SimplifyKeeps(p, a))
         IN  <<p[1]>> \o [x \in 1..Len(windows) |-> p[windows[x] + 1]]

\* simplify_polygon
simplify_polygon(p) ==
    IF Len(p) <= 3 THEN p
    ELSE LET windows == SelectSeq([a \in 1..(Len(p) - 2) |-> a],
                                  LAMBDA a : SimplifyKeeps(p, a))
         IN  <<p[1]>> \o [x \in 1..Len(windows) |-> p[windows[x] + 1]] \o <<p[1]>>

\* mark_visited that marks the edge but not its reverse
mark_visited_forward(edges_k, visited_k, edge) ==
    LET pos == BinarySearch(edges_k, edge)
    IN  IF pos = 0 THEN [ok |-> FALSE, visited_k |-> visited_k]
        ELSE IF visited_k[pos] THEN [ok |-> FALSE, visited_k |-> visited_k]
        ELSE [ok |-> TRUE, visited_k |-> [visited_k EXCEPT ![pos] = TRUE]]

\* mark_visited: marks the edge and its reverse; ok is FALSE when an unwrap
\* or an assertion of mark_visited fails
mark_visited(edges_k, visited_k, edge) ==
    LET pos == BinarySearch(edges_k, edge)
        pos2 == BinarySearch(edges_k, reverse_edge(edge))
    IN  IF pos = 0 \/ pos2 = 0 THEN [ok |-> FALSE, visited_k |-> visited_k]
        ELSE IF visited_k[pos] THEN [ok |-> FALSE, visited_k |-> visited_k]
        ELSE IF [visited_k EXCEPT ![pos] = TRUE][pos2]
        THEN [ok |-> FALSE, visited_k |-> visited_k]
        ELSE [ok |-> TRUE, visited_k |-> [visited_k EXCEPT ![pos] = TRUE, ![pos2] = TRUE]]

\* i32::MAX and i32::MIN, the values of kmin and kmax for an empty voxel set
I32Max == 2147483647

I32Min == -I32Max - 1

\* kmin and kmax of the loop over the voxels
KMin(vs) == IF vs = {} THEN I32Max ELSE CHOOSE a \in {c[3] : c \in vs} : \A c \in vs : a <= c[3]

KMax(vs) == IF vs = {} THEN I32Min ELSE CHOOSE a \in {c[3] : c \in vs} : \A c \in vs : a >= c[3]

\* edges_k and visited_k, the slices of layer k
EdgesK == SubSeq(edges, first + 1, last)

VisitedK == SubSeq(visited, first + 1, last)

\* writing the slice visited_k back into PolygonBuilder.visited
WithVisitedK(vk) == SubSeq(visited, 1, first) \o vk \o SubSeq(visited, last + 1, Len(visited))

\* the edges that leave corner p, and their visited flags
AdjFirst(p) == PartitionPoint(EdgesK, LAMBDA e : PointLess(e[2], p))

AdjLast(p) == PartitionPoint(EdgesK, LAMBDA e : PointLess(e[2], next_point(p)))

AdjacentEdges(p) == SubSeq(EdgesK, AdjFirst(p) + 1, AdjLast(p))

AdjacentEdgesVisited(p) == SubSeq(VisitedK, AdjFirst(p) + 1, AdjLast(p))

\* FourWayNext with the wrong coordinate advanced in the case di = 1 of the
\* member branch: the walk goes straight on instead of turning
FourWayNextStraight(vs, kk, p, di, dj) ==
    IF CubeNew(kk, p[1], p[2]) \in vs
    THEN IF di = -1 THEN <<p[1], p[2] - 1>>
         ELSE IF di = 1 THEN <<p[1] + 1, p[2]>>
         ELSE IF dj = -1 THEN <<p[1] - 1, p[2]>>
         ELSE <<p[1] + 1, p[2]>>
    ELSE IF di = -1 THEN <<p[1], p[2] + 1>>
         ELSE IF di = 1 THEN <<p[1], p[2] - 1>>
         ELSE IF dj = -1 THEN <<p[1] + 1, p[2]>>
         ELSE <<p[1] - 1, p[2]>>

\* the next corner at a corner with four boundary edges, by the arrival
\* direction and by whether Cube::new(k, v.0, v.1) is a member voxel
FourWayNext(vs, kk, p, di, dj) ==
    IF CubeNew(kk, p[1], p[2]) \in vs
    THEN IF di = -1 THEN <<p[1], p[2] - 1>>
         ELSE IF di = 1 THEN <<p[1], p[2] + 1>>
         ELSE IF dj = -1 THEN <<p[1] - 1, p[2]>>
         ELSE <<p[1] + 1, p[2]>>
    ELSE IF di = -1 THEN <<p[1], p[2] + 1>>
         ELSE IF di = 1 THEN <<p[1], p[2] - 1>>
         ELSE IF dj = -1 THEN <<p[1] + 1, p[2]>>
         ELSE <<p[1] - 1, p[2]>>

\* the edge the walk takes next from v, having come from u
NextEdge(adj) ==
    IF Len(adj) = 2
    THEN IF adj[1] = <<k, v, u>> THEN adj[2] ELSE adj[1]
    ELSE <<k, v, FourWayNext(voxels, k, v, v[1] - u[1], v[2] - u[2])>>

(***************************************************************************)
(* SpecPoly: cell_voxels_to_polygons, step by step                         *)
(***************************************************************************)
IdleConn ==
    /\ cells = [h \in Grid |-> BACKGROUND_CELL]
    /\ query = NoQuery
    /\ checker = NewChecker

\* nondecreasing column heights
Stairs == {h \in [0..(ProfileW - 1) -> 0..ProfileH] :
              \A x \in 0..(ProfileW - 2) : h[x] <= h[x + 1]}

\* a strip one or two voxels high
Strips == [0..(ProfileW - 1) -> 1..2]

\* the voxels of layer 0 under a profile of column heights
ProfileVoxels(h) == {c \in (DOMAIN h) \X (0..(ProfileH - 1)) \X {0} : c[2] < h[c[1]]}

\* the voxel sets of the cells whose polygons are built
VoxelSets ==
    (SUBSET ((0..MaxI) \X (0..1) \X (0..1)))
    \cup {ProfileVoxels(h) : h \in Stairs \cup Strips}

InitPoly ==
    /\ IdleConn
    /\ IdleRun
    /\ voxels \in VoxelSets
    /\ edges = << >>
    /\ visited = << >>
    /\ k = 0
    /\ first = 0
    /\ last = 0
    /\ nvisited = 0
    /\ polygon = << >>
    /\ u = <<0, 0>>
    /\ v = <<0, 0>>
    /\ smoothed = << >>
    /\ polygons_k = << >>
    /\ multipolygons = << >>
    /\ pc = "call"

\* lines 131-152: the oriented boundary edges of all layers, sorted; visited
\* reset to all false
BuildEdges ==
    /\ pc = "call"
    /\ edges' = SortSeq(CollectEdges(voxels, voxels), EdgeLess)
    /\ visited' = [x \in 1..Len(edges') |-> FALSE]
    /\ multipolygons' = << >>
    /\ k' = KMin(voxels)
    /\ pc' = "layer"
    /\ UNCHANGED <<voxels, first, last, nvisited, polygon, u, v, smoothed, polygons_k>>

\* lines 154-164: the next layer of `for k in kmin..kmax+1`
BeginLayer ==
    /\ pc = "layer"
    /\ k <= KMax(voxels)
    /\ first' = PartitionPoint(edges, LAMBDA e : e[1] < k)
    /\ last' = PartitionPoint(edges, LAMBDA e : e[1] < k + 1)
    /\ nvisited' = 0
    /\ polygons_k' = << >>
    /\ pc' = "ring"
    /\ UNCHANGED <<voxels, edges, visited, k, polygon, u, v, smoothed, multipolygons>>

\* line 288: the loop over the layers is over
Return ==
    /\ pc = "layer"
    /\ k > KMax(voxels)
    /\ pc' = "done"
    /\ UNCHANGED <<voxels, first, last, edges, visited, k, nvisited, polygon, u, v, smoothed,
                   polygons_k, multipolygons>>

\* lines 166-180: a new ring starts on the first unvisited edge of the layer
StartRing ==
    /\ pc = "ring"
    /\ nvisited < Len(EdgesK)
    /\ {x \in 1..Len(VisitedK) : ~VisitedK[x]} # {}
    /\ LET pos == CHOOSE x \in 1..Len(VisitedK) :
                      ~VisitedK[x] /\ \A y \in 1..(x - 1) : VisitedK[y]
           edge == EdgesK[pos]
           m == mark_visited(EdgesK, VisitedK, edge)
       IN  IF m.ok
           THEN /\ visited' = WithVisitedK(m.visited_k)
                /\ nvisited' = nvisited + 2
                /\ polygon' = <<edge[2], edge[3]>>
                /\ u' = edge[2]
                /\ v' = edge[3]
                /\ pc' = "walk"
           ELSE /\ pc' = "panic"
                /\ UNCHANGED <<visited, nvisited, polygon, u, v>>
    /\ UNCHANGED <<voxels, first, last, edges, k, smoothed, polygons_k, multipolygons>>

\* lines 166, 279-285: no unvisited edge is left; the rings of the layer are
\* pushed to the result
EndLayer ==
    /\ pc = "ring"
    /\ \/ nvisited >= Len(EdgesK)
       \/ \A x \in 1..Len(VisitedK) : VisitedK[x]
    /\ multipolygons' = Append(multipolygons, <<k, polygons_k>>)
    /\ k' = k + 1
    /\ pc' = "layer"
    /\ UNCHANGED <<voxels, first, last, edges, visited, nvisited, polygon, u, v, smoothed, polygons_k>>

\* lines 182-260: one iteration of the walk from corner v
WalkStep ==
    /\ pc = "walk"
    /\ nvisited < Len(EdgesK)
    /\ LET adj == AdjacentEdges(v)
           adjvis == AdjacentEdgesVisited(v)
           next == NextEdge(adj)
           m == mark_visited(EdgesK, VisitedK, next)
       IN  IF \/ Abs(v[1] - u[1]) + Abs(v[2] - u[2]) # 1
              \/ Len(adj) \notin {2, 4}
              \/ next \notin Range(adj)
           THEN \* an assertion of the walk fails
                /\ pc' = "panic"
                /\ UNCHANGED <<visited, nvisited, polygon, u, v>>
           ELSE IF adjvis[BinarySearch(adj, next)]
           THEN \* back on a visited edge: the ring must be closed
                /\ pc' = IF polygon[1] = polygon[Len(polygon)] THEN "close" ELSE "panic"
                /\ UNCHANGED <<visited, nvisited, polygon, u, v>>
           ELSE IF m.ok
           THEN /\ visited' = WithVisitedK(m.visited_k)
                /\ nvisited' = nvisited + 2
                /\ polygon' = Append(polygon, next[3])
                /\ u' = v
                /\ v' = next[3]
                /\ pc' = "walk"
           ELSE /\ pc' = "panic"
                /\ UNCHANGED <<visited, nvisited, polygon, u, v>>
    /\ UNCHANGED <<voxels, first, last, edges, k, smoothed, polygons_k, multipolygons>>

\* line 182: every edge of the layer is visited, the walk is over
WalkExit ==
    /\ pc = "walk"
    /\ nvisited >= Len(EdgesK)
    /\ pc' = "close"
    /\ UNCHANGED <<voxels, first, last, edges, visited, k, nvisited, polygon, u, v, smoothed,
                   polygons_k, multipolygons>>

\* lines 262-278: the ring is checked, smoothed, simplified and pushed (the
\* rings are kept in corner-lattice coordinates)
CloseRing ==
    /\ pc = "close"
    /\ IF polygon[1] = polygon[Len(polygon)]
       THEN /\ smoothed' = antialias_polygon(polygon)
            /\ polygons_k' = Append(polygons_k, simplify_polygon(smoothed'))
            /\ pc' = "ring"
       ELSE /\ pc' = "panic"
            /\ UNCHANGED <<smoothed, polygons_k>>
    /\ UNCHANGED <<voxels, first, last, edges, visited, k, nvisited, polygon, u, v, multipolygons>>

NextPoly ==
    \/ BuildEdges /\ UNCHANGED <<varsConn, varsRun>>
    \/ BeginLayer /\ UNCHANGED <<varsConn, varsRun>>
    \/ Return /\ UNCHANGED <<varsConn, varsRun>>
    \/ StartRing /\ UNCHANGED <<varsConn, varsRun>>
    \/ EndLayer /\ UNCHANGED <<varsConn, varsRun>>
    \/ WalkStep /\ UNCHANGED <<varsConn, varsRun>>
    \/ WalkExit /\ UNCHANGED <<varsConn, varsRun>>
    \/ CloseRing /\ UNCHANGED <<varsConn, varsRun>>

SpecPoly == InitPoly /\ [][NextPoly]_vars

\* a call that has not returned (or panicked) proceeds: every step of it
\* moves the position in the code or marks two more edges
Proceeds ==
    /\ pc \notin {"done", "panic"}
    /\ pc' \in {"call", "layer", "ring", "walk", "close", "done", "panic"}
    /\ nvisited' \in {0, nvisited, nvisited + 2}
    /\ <<pc', nvisited'>> # <<pc, nvisited>>

\* the call is one sequential computation: while it has not returned, it
\* takes its next step
SpecPolyFair == InitPoly /\ [][NextPoly]_vars /\ WF_<<pc, nvisited>>(Proceeds)

(***************************************************************************)
(* Properties of the polygon builder                                       *)
(***************************************************************************)
\* a ring has just been closed: polygon is the traced ring, smoothed the
\* ring after antialias_polygon, LastRing the ring after simplify_polygon
JustClosed == pc = "ring" /\ Len(polygons_k) > 0

LastRing == polygons_k[Len(polygons_k)]

IsClosed(p) == Len(p) > 0 /\ p[1] = p[Len(p)]

\* the four corners of voxel c
CornersOf(c) == { <<c[1], c[2]>>, <<c[1], c[2] + 1>>, <<c[1] + 1, c[2] + 1>>, <<c[1] + 1, c[2]>> }

\* p is a closed ring of five points through the four points of S
IsFourCornerRing(p, S) ==
    /\ Len(p) = 5
    /\ IsClosed(p)
    /\ {p[x] : x \in 1..4} = S
    /\ Cardinality(S) = 4

SingleVoxel == Cardinality(voxels) = 1

TheVoxel == CHOOSE c \in voxels : TRUE

\* C4: for a cell of a single voxel the result is one layer entry with one
\* ring, the ring is closed, has five points and runs through the four
\* corners of the voxel, and antialias_polygon and simplify_polygon return
\* the traced ring unchanged
C4_SingleVoxelRing ==
    SingleVoxel =>
        /\ pc # "panic"
        /\ JustClosed =>
              /\ IsFourCornerRing(polygon, CornersOf(TheVoxel))
              /\ smoothed = polygon
              /\ LastRing = polygon
        /\ pc = "done" =>
              /\ Len(multipolygons) = 1
              /\ multipolygons[1][1] = TheVoxel[3]
              /\ multipolygons[1][2] = <<polygon>>
              /\ IsFourCornerRing(polygon, CornersOf(TheVoxel))

C4_Witness ==
    /\ SingleVoxel
    /\ pc = "done"
    /\ Len(multipolygons) = 1
    /\ Len(multipolygons[1][2]) = 1

\* two member voxels of one layer that share a side
PlanarAdjacent(a, b) ==
    /\ a[3] = b[3]
    /\ Abs(a[1] - b[1]) + Abs(a[2] - b[2]) = 1

TwoAdjacentVoxels ==
    /\ Cardinality(voxels) = 2
    /\ \E a, b \in voxels : PlanarAdjacent(a, b)

\* the two corner points of the side shared by the two voxels
SharedSide ==
    LET a == CHOOSE a \in voxels : TRUE
        b == CHOOSE b \in voxels : b # a
    IN  {EdgeXY(a, b)[1], EdgeXY(a, b)[2]}

\* the corners of the rectangle that encloses all member voxels
EnclosingCorners ==
    LET is == {c[1] : c \in voxels} \cup {c[1] + 1 : c \in voxels}
        js == {c[2] : c \in voxels} \cup {c[2] + 1 : c \in voxels}
        lo(S) == CHOOSE a \in S : \A b \in S : a <= b
        hi(S) == CHOOSE a \in S : \A b \in S : a >= b
    IN  {lo(is), hi(is)} \X {lo(js), hi(js)}

\* ring p runs along the segment between the two points of S
RunsAlong(p, S) == \E x \in 1..(Len(p) - 1) : {p[x], p[x + 1]} = S

\* C5: for a cell of two planar-adjacent voxels of one layer the result is
\* one ring for that layer, the five-point ring around the enclosing
\* rectangle; the side the two voxels share is not in the edge list and no
\* ring runs along it
C5_TwoVoxelsOneRing ==
    TwoAdjacentVoxels =>
        /\ pc # "panic"
        /\ \A x \in 1..Len(edges) : {edges[x][2], edges[x][3]} # SharedSide
        /\ ~RunsAlong(polygon, SharedSide)
        /\ ~RunsAlong(smoothed, SharedSide)
        /\ \A x \in 1..Len(polygons_k) : ~RunsAlong(polygons_k[x], SharedSide)
        /\ pc = "done" =>
              /\ Len(multipolygons) = 1
              /\ multipolygons[1][1] = TheVoxel[3]
              /\ Len(multipolygons[1][2]) = 1
              /\ IsFourCornerRing(multipolygons[1][2][1], EnclosingCorners)

C5_Witness ==
    /\ TwoAdjacentVoxels
    /\ pc = "done"
    /\ Len(multipolygons) = 1
    /\ Len(multipolygons[1][2]) = 1
    /\ Len(polygon) = 7

\* C6: simplify_polygon is idempotent: simplifying the ring it returned
\* gives that ring again
C6_SimplifyIdempotent ==
    JustClosed => simplify_polygon(LastRing) = LastRing

\* cross product of the edge vectors a->b and b->c
Cross(a, b, c) == (b[1] - a[1]) * (c[2] - b[2]) - (b[2] - a[2]) * (c[1] - b[1])

\* C7: simplify_polygon removes exactly the collinear vertices: no vertex of
\* its output is collinear with its predecessor and successor, and every
\* vertex of its input that is not collinear with its neighbours is kept
C7_SimplifyExactlyCollinear ==
    JustClosed =>
        /\ \A x \in 2..(Len(LastRing) - 1) :
              Cross(LastRing[x - 1], LastRing[x], LastRing[x + 1]) # 0
        /\ \A x \in 2..(Len(smoothed) - 1) :
              Cross(smoothed[x - 1], smoothed[x], smoothed[x + 1]) # 0
                  => smoothed[x] \in Range(LastRing)

\* the segment from p[x] to p[x+1], cyclically for a closed ring
Seg(p, x) ==
    LET y == ((x - 1) % (Len(p) - 1)) + 1
    IN  <<p[y + 1][1] - p[y][1], p[y + 1][2] - p[y][2]>>

IsUnitStep(d) == Abs(d[1]) + Abs(d[2]) = 1

UnitSteps(p) == \A x \in 1..(Len(p) - 1) : IsUnitStep(Seg(p, x))

Perpendicular(d, e) == (d[1] = 0) # (e[1] = 0)

Opposite(d, e) == d[1] = -e[1] /\ d[2] = -e[2]

\* no three consecutive segments of the closed ring alternate axis
NoStaircase(p) ==
    \A x \in 1..(Len(p) - 1) :
        ~ (Perpendicular(Seg(p, x), Seg(p, x + 1)) /\ Perpendicular(Seg(p, x + 1), Seg(p, x + 2)))

\* C8 as stated: antialias_polygon returns a closed ring of unit axis-aligned
\* steps unchanged when no three consecutive segments alternate axis
C8_NoStaircaseUnchanged ==
    (JustClosed /\ UnitSteps(polygon) /\ NoStaircase(polygon)) => smoothed = polygon

\* every turn of the ring that a window of antialias_polygon is centred on is
\* one end of a U-turn: the segment before the turn's first segment, or the
\* one after its second segment, runs back against the turn
EveryTurnInUTurn(p) ==
    \A a \in 1..(Len(p) - 4) :
        LET d1 == <<p[a + 1][1] - p[a][1], p[a + 1][2] - p[a][2]>>
            d2 == <<p[a + 2][1] - p[a + 1][1], p[a + 2][2] - p[a + 1][2]>>
            d3 == <<p[a + 3][1] - p[a + 2][1], p[a + 3][2] - p[a + 2][2]>>
            d4 == <<p[a + 4][1] - p[a + 3][1], p[a + 4][2] - p[a + 3][2]>>
        IN  Perpendicular(d2, d3) => (Opposite(d1, d3) \/ Opposite(d4, d2))

\* C8 as amended: antialias_polygon returns a closed ring of unit
\* axis-aligned steps unchanged when every turn it examines is one end of a
\* U-turn, as in the outline of a rectangle one voxel wide
C8_UTurnsUnchanged ==
    (JustClosed /\ UnitSteps(polygon) /\ EveryTurnInUTurn(polygon)) => smoothed = polygon

C8_Witness ==
    /\ JustClosed
    /\ UnitSteps(polygon)
    /\ EveryTurnInUTurn(polygon)
    /\ Len(polygon) > 5
    /\ smoothed = polygon

\* the eight vertices p[x..x+7] = A B C D E F G H form a one-unit notch: the
\* run A-B-C is straight, C-D steps one unit inward, D-E runs one unit
\* along, E-F steps back and F-G-H continues straight.  The tracer walks an
\* outer ring with the cell on its right, so the inward step is a right turn
NotchAt(p, x) ==
    /\ x >= 1
    /\ x + 7 <= Len(p)
    /\ LET d == <<p[x + 1][1] - p[x][1], p[x + 1][2] - p[x][2]>>
           e == <<p[x + 3][1] - p[x + 2][1], p[x + 3][2] - p[x + 2][2]>>
           step(y) == <<p[y + 1][1] - p[y][1], p[y + 1][2] - p[y][2]>>
       IN  /\ IsUnitStep(d)
           /\ IsUnitStep(e)
           /\ e = <<d[2], -d[1]>>
           /\ step(x + 1) = d
           /\ step(x + 3) = d
           /\ Opposite(step(x + 4), e)
           /\ step(x + 5) = d
           /\ step(x + 6) = d

\* C9 as stated: the vertices at the bottom of a one-unit notch (D and E) are
\* absent from the output of antialias_polygon
C9_NotchBottomRemoved ==
    JustClosed =>
        \A x \in 1..Len(polygon) :
            NotchAt(polygon, x) =>
                /\ polygon[x + 3] \notin Range(smoothed)
                /\ polygon[x + 4] \notin Range(smoothed)

\* s contains the points of t as consecutive elements
HasRun(s, t) == \E y \in 0..(Len(s) - Len(t)) : \A z \in 1..Len(t) : s[y + z] = t[z]

\* C9 as amended: antialias_polygon removes the two vertices at the mouth of
\* the notch (C and F) and keeps the two at its bottom: its output runs
\* B, D, E, G
C9_NotchMouthRemoved ==
    JustClosed =>
        \A x \in 1..Len(polygon) :
            NotchAt(polygon, x) =>
                HasRun(smoothed, <<polygon[x + 1], polygon[x + 3], polygon[x + 4], polygon[x + 6]>>)

C9_Witness ==
    /\ JustClosed
    /\ \E x \in 1..Len(polygon) :
          /\ NotchAt(polygon, x)
          /\ polygon[x + 2] \notin Range(smoothed)
          /\ polygon[x + 5] \notin Range(smoothed)
          /\ HasRun(smoothed, <<polygon[x + 1], polygon[x + 3], polygon[x + 4], polygon[x + 6]>>)

(***************************************************************************)
(* main.rs: the schedule of a run                                          *)
(***************************************************************************)
\* the longest schedule
MaxSchedLen == 3

\* the largest iteration count of a schedule entry and of recorded_samples
MaxIter == 2

\* the largest monitoring frequency
MaxFreq == 2

\* --schedule takes one or more entries
Schedules == UNION {[1..n -> 0..MaxIter] : n \in 1..MaxSchedLen}

\* one call made by main or run_hexbin_sampler, with the step counter and the
\* resolution at the time of the call and the uncertainty and burnin
\* arguments of the sampling phase that makes it
Event(op, unc, b) ==
    [op |-> op, total_steps |-> total_steps, resolution |-> resolution,
     uncertainty |-> unc, burnin |-> b]

\* CubeBinSampler::double_resolution: the sampler it returns has voxels of
\* half the size
double_resolution(r) == r + 1

InitRun ==
    /\ IdleConn
    /\ IdlePoly
    /\ schedule \in Schedules
    /\ recorded_samples \in 0..MaxIter
    /\ check_consistency \in BOOLEAN
    /\ monitor_cell_polygons \in BOOLEAN
    /\ monitor_cell_polygons_freq \in 0..MaxFreq
    /\ total_steps = 0
    /\ resolution = 0
    /\ entry = 0
    /\ main_pc = "args"
    /\ run_pc = "idle"
    /\ niter = 0
    /\ iter = 0
    /\ uncertainty = FALSE
    /\ burnin = FALSE
    /\ trace = << >>

\* the check of recorded_samples, then the set-up up to `if schedule.len() > 1`
CheckArgs ==
    /\ main_pc = "args"
    /\ main_pc' = IF recorded_samples > schedule[Len(schedule)] THEN "panic"
                  ELSE IF Len(schedule) > 1 THEN "first_run"
                  ELSE "burn_run"
    /\ UNCHANGED <<schedule, recorded_samples, check_consistency, monitor_cell_polygons,
                   monitor_cell_polygons_freq, total_steps, resolution, entry,
                   run_pc, niter, iter, uncertainty, burnin, trace>>

\* a call of run_hexbin_sampler by main, which continues at ret on return
run_hexbin_sampler(n, unc, b, ret) ==
    /\ run_pc = "idle"
    /\ niter' = n
    /\ uncertainty' = unc
    /\ burnin' = b
    /\ iter' = 0
    /\ run_pc' = "enter"
    /\ main_pc' = ret
    /\ trace' = Append(trace, Event("run_hexbin_sampler", unc, b))
    /\ UNCHANGED <<schedule, recorded_samples, check_consistency, monitor_cell_polygons,
                   monitor_cell_polygons_freq, total_steps, resolution>>

\* `if args.check_consistency { check_consistency }`, main continues at ret
CheckIfEnabled(ret) ==
    /\ run_pc = "idle"
    /\ trace' = IF check_consistency
                THEN Append(trace, Event("check_consistency", FALSE, FALSE))
                ELSE trace
    /\ main_pc' = ret
    /\ UNCHANGED <<schedule, recorded_samples, check_consistency, monitor_cell_polygons,
                   monitor_cell_polygons_freq, total_steps, resolution, entry,
                   run_pc, niter, iter, uncertainty, burnin>>

\* `sampler.replace_with(|sampler| sampler.double_resolution(&params))`
DoubleResolution(ret) ==
    /\ run_pc = "idle"
    /\ resolution' = double_resolution(resolution)
    /\ trace' = Append(trace, Event("double_resolution", FALSE, FALSE))
    /\ main_pc' = ret
    /\ UNCHANGED <<schedule, recorded_samples, check_consistency, monitor_cell_polygons,
                   monitor_cell_polygons_freq, total_steps, entry,
                   run_pc, niter, iter, uncertainty, burnin>>

\* the phase of schedule[0]
FirstRun ==
    /\ main_pc = "first_run"
    /\ run_hexbin_sampler(schedule[1], FALSE, TRUE, "loop")
    /\ entry' = 2

\* LoopCheck without the consistency check
LoopCheckSkipped ==
    /\ main_pc = "loop"
    /\ entry <= Len(schedule) - 1
    /\ run_pc = "idle"
    /\ main_pc' = "loop_double"
    /\ UNCHANGED <<schedule, recorded_samples, check_consistency, monitor_cell_polygons,
                   monitor_cell_polygons_freq, total_steps, resolution, entry,
                   run_pc, niter, iter, uncertainty, burnin, trace>>

\* for &niter in schedule[1..len-1]: the consistency check of one round
LoopCheck ==
    /\ main_pc = "loop"
    /\ entry <= Len(schedule) - 1
    /\ CheckIfEnabled("loop_double")

LoopDouble ==
    /\ main_pc = "loop_double"
    /\ DoubleResolution("loop_run")

LoopRun ==
    /\ main_pc = "loop_run"
    /\ run_hexbin_sampler(schedule[entry], FALSE, TRUE, "loop")
    /\ entry' = entry + 1

\* after the for loop
LastCheck ==
    /\ main_pc = "loop"
    /\ entry > Len(schedule) - 1
    /\ CheckIfEnabled("last_double")

\* LastDouble without the call of double_resolution
LastDoubleSkipped ==
    /\ main_pc = "last_double"
    /\ run_pc = "idle"
    /\ main_pc' = "burn_run"
    /\ UNCHANGED <<schedule, recorded_samples, check_consistency, monitor_cell_polygons,
                   monitor_cell_polygons_freq, total_steps, resolution, entry,
                   run_pc, niter, iter, uncertainty, burnin, trace>>

LastDouble ==
    /\ main_pc = "last_double"
    /\ DoubleResolution("burn_run")

\* BurnRun over the whole last schedule entry, recorded_samples not taken off
BurnRunFull ==
    /\ main_pc = "burn_run"
    /\ run_hexbin_sampler(schedule[Len(schedule)], FALSE, FALSE, "record_run")
    /\ UNCHANGED entry

\* the unrecorded iterations of the last schedule entry
BurnRun ==
    /\ main_pc = "burn_run"
    /\ run_hexbin_sampler(schedule[Len(schedule)] - recorded_samples, FALSE, FALSE, "record_run")
    /\ UNCHANGED entry

\* the recorded iterations
RecordRun ==
    /\ main_pc = "record_run"
    /\ run_hexbin_sampler(recorded_samples, TRUE, FALSE, "final_check")
    /\ UNCHANGED entry

\* FinalCheck placed after the outputs are written
FinalCheckAfterOutputs ==
    /\ main_pc = "final_check"
    /\ run_pc = "idle"
    /\ trace' = IF check_consistency
                THEN trace \o <<Event("write_output", FALSE, FALSE),
                                Event("check_consistency", FALSE, FALSE)>>
                ELSE Append(trace, Event("write_output", FALSE, FALSE))
    /\ main_pc' = "output"
    /\ UNCHANGED <<schedule, recorded_samples, check_consistency, monitor_cell_polygons,
                   monitor_cell_polygons_freq, total_steps, resolution, entry,
                   run_pc, niter, iter, uncertainty, burnin>>

FinalCheck ==
    /\ main_pc = "final_check"
    /\ CheckIfEnabled("output")

\* everything main does after the final consistency check
WriteOutputs ==
    /\ main_pc = "output"
    /\ run_pc = "idle"
    /\ trace' = Append(trace, Event("write_output", FALSE, FALSE))
    /\ main_pc' = "done"
    /\ UNCHANGED <<schedule, recorded_samples, check_consistency, monitor_cell_polygons,
                   monitor_cell_polygons_freq, total_steps, resolution, entry,
                   run_pc, niter, iter, uncertainty, burnin>>

\* run_hexbin_sampler: the sample_global_params call before the loop
RunEnter ==
    /\ run_pc = "enter"
    /\ trace' = Append(trace, Event("sample_global_params", uncertainty, burnin))
    /\ run_pc' = "loop"
    /\ UNCHANGED <<schedule, recorded_samples, check_consistency, monitor_cell_polygons,
                   monitor_cell_polygons_freq, total_steps, resolution, entry,
                   main_pc, niter, iter, uncertainty, burnin>>

\* one iteration: the local_steps_per_iter calls of sample_cell_regions
SampleCellRegions ==
    /\ run_pc = "loop"
    /\ iter < niter
    /\ trace' = Append(trace, Event("sample_cell_regions", uncertainty, burnin))
    /\ run_pc' = "params"
    /\ UNCHANGED <<schedule, recorded_samples, check_consistency, monitor_cell_polygons,
                   monitor_cell_polygons_freq, total_steps, resolution, entry,
                   main_pc, niter, iter, uncertainty, burnin>>

\* one iteration: sample_global_params and the progress message
SampleGlobalParams ==
    /\ run_pc = "params"
    /\ trace' = Append(trace, Event("sample_global_params", uncertainty, burnin))
    /\ run_pc' = "monitor"
    /\ UNCHANGED <<schedule, recorded_samples, check_consistency, monitor_cell_polygons,
                   monitor_cell_polygons_freq, total_steps, resolution, entry,
                   main_pc, niter, iter, uncertainty, burnin>>

\* Monitor with the step counter advanced before the test of the frequency
MonitorCountsFirst ==
    /\ run_pc = "monitor"
    /\ IF monitor_cell_polygons_freq = 0
       THEN /\ main_pc' = "panic"
            /\ run_pc' = "panic"
            /\ UNCHANGED <<total_steps, iter, trace>>
       ELSE /\ total_steps' = total_steps + 1
            /\ trace' = IF total_steps' % monitor_cell_polygons_freq = 0 /\ monitor_cell_polygons
                        THEN Append(trace, [Event("write_monitor", uncertainty, burnin)
                                               EXCEPT !.total_steps = total_steps'])
                        ELSE trace
            /\ iter' = iter + 1
            /\ run_pc' = "loop"
            /\ UNCHANGED main_pc
    /\ UNCHANGED <<schedule, recorded_samples, check_consistency, monitor_cell_polygons,
                   monitor_cell_polygons_freq, resolution, entry,
                   niter, uncertainty, burnin>>

\* one iteration: the monitoring snapshot and the step counter.  The
\* remainder by a frequency of zero panics
Monitor ==
    /\ run_pc = "monitor"
    /\ IF monitor_cell_polygons_freq = 0
       THEN /\ main_pc' = "panic"
            /\ run_pc' = "panic"
            /\ UNCHANGED <<total_steps, iter, trace>>
       ELSE /\ trace' = IF total_steps % monitor_cell_polygons_freq = 0 /\ monitor_cell_polygons
                        THEN Append(trace, Event("write_monitor", uncertainty, burnin))
                        ELSE trace
            /\ total_steps' = total_steps + 1
            /\ iter' = iter + 1
            /\ run_pc' = "loop"
            /\ UNCHANGED main_pc
    /\ UNCHANGED <<schedule, recorded_samples, check_consistency, monitor_cell_polygons,
                   monitor_cell_polygons_freq, resolution, entry,
                   niter, uncertainty, burnin>>

\* the loop is over: run_hexbin_sampler returns
RunReturn ==
    /\ run_pc = "loop"
    /\ iter >= niter
    /\ trace' = Append(trace, Event("return", uncertainty, burnin))
    /\ run_pc' = "idle"
    /\ UNCHANGED <<schedule, recorded_samples, check_consistency, monitor_cell_polygons,
                   monitor_cell_polygons_freq, total_steps, resolution, entry,
                   main_pc, niter, iter, uncertainty, burnin>>

\* the calls in which an invariant violation is a fatal assertion
FatalPoints == {"sample_cell_regions", "check_consistency", "double_resolution"}

\* a fatal assertion fails in the call made last: the run aborts
FatalAssertion ==
    /\ main_pc \notin {"idle", "args", "panic", "done"}
    /\ trace # << >>
    /\ trace[Len(trace)].op \in FatalPoints
    /\ main_pc' = "panic"
    /\ run_pc' = "panic"
    /\ UNCHANGED <<schedule, recorded_samples, check_consistency, monitor_cell_polygons,
                   monitor_cell_polygons_freq, total_steps, resolution, entry,
                   niter, iter, uncertainty, burnin, trace>>

NextRun ==
    \/ CheckArgs /\ UNCHANGED <<varsConn, varsPoly>>
    \/ FirstRun /\ UNCHANGED <<varsConn, varsPoly>>
    \/ LoopCheck /\ UNCHANGED <<varsConn, varsPoly>>
    \/ LoopDouble /\ UNCHANGED <<varsConn, varsPoly>>
    \/ LoopRun /\ UNCHANGED <<varsConn, varsPoly>>
    \/ LastCheck /\ UNCHANGED <<varsConn, varsPoly>>
    \/ LastDouble /\ UNCHANGED <<varsConn, varsPoly>>
    \/ BurnRun /\ UNCHANGED <<varsConn, varsPoly>>
    \/ RecordRun /\ UNCHANGED <<varsConn, varsPoly>>
    \/ FinalCheck /\ UNCHANGED <<varsConn, varsPoly>>
    \/ WriteOutputs /\ UNCHANGED <<varsConn, varsPoly>>
    \/ RunEnter /\ UNCHANGED <<varsConn, varsPoly>>
    \/ SampleCellRegions /\ UNCHANGED <<varsConn, varsPoly>>
    \/ SampleGlobalParams /\ UNCHANGED <<varsConn, varsPoly>>
    \/ Monitor /\ UNCHANGED <<varsConn, varsPoly>>
    \/ RunReturn /\ UNCHANGED <<varsConn, varsPoly>>
    \/ FatalAssertion /\ UNCHANGED <<varsConn, varsPoly>>

SpecRun == InitRun /\ [][NextRun]_vars

(***************************************************************************)
(* Properties of the schedule                                              *)
(***************************************************************************)
\* the positions of the calls of op in the trace
Positions(op) == {x \in DOMAIN trace : trace[x].op = op}

\* the calls of op that precede position x
Before(op, x) == {y \in Positions(op) : y < x}

\* the position of the last call of double_resolution, 0 when there is none
LastDoubling ==
    IF Positions("double_resolution") = {} THEN 0
    ELSE CHOOSE x \in Positions("double_resolution") :
             \A y \in Positions("double_resolution") : y <= x

C10_State ==
    /\ resolution = Cardinality(Positions("double_resolution"))
    /\ \A x \in 2..Len(trace) : trace[x].resolution >= trace[x - 1].resolution
    /\ \A x \in Positions("double_resolution") :
          /\ Before("run_hexbin_sampler", x) # {}
          /\ Cardinality(Before("run_hexbin_sampler", x)) = Cardinality(Before("return", x))
          /\ main_pc = "done" => \E y \in Positions("run_hexbin_sampler") : y > x
    /\ main_pc = "done" =>
          /\ Cardinality(Positions("double_resolution")) = Len(schedule) - 1
          /\ Cardinality({y \in Positions("sample_cell_regions") : y > LastDoubling})
                 = schedule[Len(schedule)]
          /\ \A y \in Positions("sample_cell_regions") :
                 y > LastDoubling => trace[y].resolution = Len(schedule) - 1

C10_Step ==
    resolution' # resolution =>
        /\ resolution' = resolution + 1
        /\ run_pc = "idle"
        /\ run_pc' = "idle"
        /\ trace' = Append(trace, Event("double_resolution", FALSE, FALSE))

\* C10: the resolution changes only in a call of double_resolution, by one
\* refinement and never back; a run that completes has called it
\* Len(schedule) - 1 times; every call is made while no sampling phase is in
\* progress, after a phase has returned and before another starts; all
\* iterations of the last schedule entry come after the last call and run at
\* the final resolution
C10_DoublingBetweenPhases == [](C10_State) /\ [][C10_Step]_vars

C10_Witness ==
    /\ main_pc = "done"
    /\ Len(schedule) = 3
    /\ resolution = 2
    /\ recorded_samples > 0
    /\ schedule[3] > recorded_samples
    /\ schedule[1] > 0
    /\ schedule[2] > 0

\* the run has aborted
Aborted == main_pc = "panic"

C12_ScratchStateRebuilt ==
    query # NoQuery =>
        /\ query.ret = hex_isarticulation(query.root, cells, query.cell)
        /\ checker = HexIsArticulation(NewChecker, query.root, cells, query.cell).checker

\* a query on a checker whose fields were left by an earlier query, answered
\* with a veto
C12_Witness ==
    /\ query.reused
    /\ query.ret = TRUE
    /\ Cardinality(DOMAIN checker.dfsinfo) >= 3

\* those of the six neighbours of the queried voxel whose cell is the
\* queried cell
SameCellNeighbors ==
    {n \in Range(AllNeighbors(query.root)) : Lookup(cells, n) = query.cell}

\* the groups the same-cell neighbours fall into under adjacency among
\* themselves
NeighborGroups ==
    {Flood(SameCellNeighbors, {n}) : n \in SameCellNeighbors}

\* C13: hex_isarticulation returns true exactly when the same-cell
\* neighbours of root fall into two or more groups not linked by adjacency
\* among themselves; false with zero or one such neighbour and when they
\* form one contiguous group, all six included
C13_TrueIffTwoGroups ==
    query # NoQuery =>
        /\ query.ret <=> Cardinality(NeighborGroups) >= 2
        /\ Cardinality(SameCellNeighbors) <= 1 => ~query.ret
        /\ Cardinality(NeighborGroups) = 1 => ~query.ret
        /\ Cardinality(SameCellNeighbors) = 6 => ~query.ret

\* a root whose same-cell neighbours form two groups, answered with true
C13_Witness ==
    /\ query # NoQuery
    /\ Cardinality(NeighborGroups) = 2
    /\ Cardinality(SameCellNeighbors) >= 3
    /\ query.ret = TRUE

\* a root surrounded by six same-cell neighbours, answered with false
C13_WitnessAllSix ==
    /\ query # NoQuery
    /\ Cardinality(SameCellNeighbors) = 6
    /\ query.ret = FALSE

\* the queried voxel belongs to the queried cell, and the cell is connected
\* under six-neighbour adjacency
ConnectedCellQueried ==
    /\ query # NoQuery
    /\ cells[query.root] = query.cell
    /\ Connected(RegionVoxels(cells, query.cell))

\* C14: whenever hex_isarticulation returns false for a voxel of a connected
\* region, boundary voxel or not, the region without that voxel is still
\* connected or is empty
C14_FalseIsSafe ==
    (ConnectedCellQueried /\ ~query.ret) =>
        LET rest == RegionVoxels(cells, query.cell) \ {query.root}
        IN  rest = {} \/ Flood(rest, {CHOOSE h \in rest : TRUE}) = rest

\* a false verdict for a voxel with same-cell neighbours on several sides,
\* whose removal leaves a connected region of at least three voxels
C14_Witness ==
    /\ ConnectedCellQueried
    /\ ~query.ret
    /\ Cardinality(SameCellNeighbors) >= 2
    /\ Cardinality(RegionVoxels(cells, query.cell)) >= 4

\* a false verdict for the only voxel of its region: nothing is left
C14_WitnessEmpty ==
    /\ ConnectedCellQueried
    /\ ~query.ret
    /\ RegionVoxels(cells, query.cell) = {query.root}

(***************************************************************************)
(* The assertions of the boundary tracer                                   *)
(***************************************************************************)
\* the number of edges of the current layer marked visited
VisitedCount == Cardinality({x \in 1..Len(VisitedK) : VisitedK[x]})

\* the walk stands at corner v with edges of the layer left to visit
Walking == pc = "walk" /\ nvisited < Len(EdgesK)

\* corner p of layer kk is touched by exactly two member voxels, and they
\* are diagonal to each other
CheckerboardCorner(kk, p) ==
    LET around == {c \in voxels : c[3] = kk /\ p \in CornersOf(c)}
    IN  /\ Cardinality(around) = 2
        /\ \A a, b \in around : a # b => (a[1] # b[1] /\ a[2] # b[2])

\* C15: no assertion of the tracer fails: every step of the walk is a unit
\* step, every corner reached has exactly 2 or 4 outgoing boundary edges,
\* the edge chosen is one of them, the visited marks are set two at a time
\* and never twice (so nvisited counts them), and the ring is closed whenever
\* the walk stops
C15_NoAssertionFails ==
    /\ pc # "panic"
    /\ pc \in {"ring", "walk", "close"} => nvisited = VisitedCount
    /\ Walking =>
          /\ Abs(v[1] - u[1]) + Abs(v[2] - u[2]) = 1
          /\ Len(AdjacentEdges(v)) \in {2, 4}
          /\ NextEdge(AdjacentEdges(v)) \in Range(AdjacentEdges(v))
          /\ BinarySearch(EdgesK, NextEdge(AdjacentEdges(v))) # 0
          /\ BinarySearch(EdgesK, reverse_edge(NextEdge(AdjacentEdges(v)))) # 0
          /\ VisitedK[BinarySearch(EdgesK, NextEdge(AdjacentEdges(v)))]
                => polygon[1] = polygon[Len(polygon)]
    /\ pc = "close" => polygon[1] = polygon[Len(polygon)]

\* the tracer has finished two layers, one of them with a corner where four
\* boundary edges meet
C15_Witness ==
    /\ pc = "done"
    /\ Len(multipolygons) = 2
    /\ \E p \in (0..2) \X (0..2) : CheckerboardCorner(0, p)

(***************************************************************************)
(* Termination of the tracer                                               *)
(***************************************************************************)
\* the last point pushed to the ring under construction and the one before
\* it, as an edge of layer k
LastPushed(p) == <<k, p[Len(p) - 1], p[Len(p)]>>

\* what holds when a walk has stopped, when a layer is finished and when
\* the call returns
C16_State ==
    /\ pc = "close" =>
          /\ Len(polygon) >= 5
          /\ polygon[1] = polygon[Len(polygon)]
    /\ (pc = "layer" /\ multipolygons # << >>) =>
          /\ \A x \in 1..Len(VisitedK) : VisitedK[x]
          /\ \A x \in 1..Len(EdgesK) : BinarySearch(EdgesK, reverse_edge(EdgesK[x])) # 0
    /\ pc = "done" =>
          /\ \A x \in 1..Len(visited) : visited[x]
          /\ Len(multipolygons) = IF voxels = {} THEN 0 ELSE KMax(voxels) - KMin(voxels) + 1

\* an edge enters a ring at the step that marks it: the edge just pushed to
\* the ring and its reverse were unmarked before the step and are marked
\* after it, no other mark changes, and a ring that is closed is left alone
C16_Step ==
    /\ (pc' = "walk" /\ polygon' # polygon) =>
          LET ek == EdgesK
              vk == VisitedK
              pushed == LastPushed(polygon')
              pos == BinarySearch(ek, pushed)
              rev == BinarySearch(ek, reverse_edge(pushed))
          IN  /\ pos # 0 /\ rev # 0 /\ pos # rev
              /\ ~vk[pos] /\ ~vk[rev]
              /\ visited' = WithVisitedK([vk EXCEPT ![pos] = TRUE, ![rev] = TRUE])
    /\ (pc' # "walk" /\ pc # "call") => visited' = visited

\* every step of the call is a step of Proceeds, and a call that has not
\* returned has a next step
C16_Progress ==
    /\ <<pc', nvisited'>> # <<pc, nvisited>>
    /\ nvisited' \in {0, nvisited, nvisited + 2}

\* C16: the tracing of every layer terminates, a walk stops only back at its
\* start point, and when a layer is finished every boundary edge of it is
\* marked in both orientations and was pushed to exactly one ring
C16_TracingTerminates ==
    /\ <>(pc = "done")
    /\ [](C16_State)
    /\ [][C16_Step /\ C16_Progress]_vars

\* the call has returned after tracing two layers, one of them in more than
\* one ring
C16_Witness ==
    /\ pc = "done"
    /\ Len(multipolygons) = 2
    /\ \E x \in 1..2 : Len(multipolygons[x][2]) >= 2

(***************************************************************************)
(* Corners with four boundary edges                                        *)
(***************************************************************************)
\* the walk stands at a corner of the layer where four boundary edges meet
AtFourWayCorner == Walking /\ Len(AdjacentEdges(v)) = 4

\* the member voxels of layer k with side a-b
VoxelsWithSide(a, b) ==
    {c \in voxels : c[3] = k /\ a \in CornersOf(c) /\ b \in CornersOf(c)}

\* the corner the walk goes to next
NextCorner == NextEdge(AdjacentEdges(v))[3]

\* C17: at a corner where four boundary edges meet, the walk continues
\* along another edge of the member voxel whose edge it arrived on
C17_StaysOnMemberVoxel ==
    AtFourWayCorner =>
        /\ Cardinality(VoxelsWithSide(u, v)) = 1
        /\ VoxelsWithSide(v, NextCorner) = VoxelsWithSide(u, v)

\* the walk leaves a four-edge corner along an edge of the other voxel
C17_Crosses ==
    /\ AtFourWayCorner
    /\ VoxelsWithSide(v, NextCorner) # VoxelsWithSide(u, v)

\* the walk leaves a four-edge corner along an edge of the same voxel
C17_Stays ==
    /\ AtFourWayCorner
    /\ VoxelsWithSide(v, NextCorner) = VoxelsWithSide(u, v)

(***************************************************************************)
(* The rings of one layer as a function of the voxel set                   *)
(***************************************************************************)
\* lines 182-260 as a function: the walk from corner vv, having come from
\* uu, on the edges ek of layer kk with marks vk; returns the marks and the
\* ring when the walk stops
RECURSIVE TraceWalk(_, _, _, _, _, _, _, _)
TraceWalk(vs, kk, ek, vk, ring, uu, vv, nvis) ==
    IF nvis >= Len(ek) THEN [visited_k |-> vk, polygon |-> ring]
    ELSE LET adj == SelectSeq(ek, LAMBDA e : e[2] = vv)
             next == IF Len(adj) = 2
                     THEN IF adj[1] = <<kk, vv, uu>> THEN adj[2] ELSE adj[1]
                     ELSE <<kk, vv, FourWayNext(vs, kk, vv, vv[1] - uu[1], vv[2] - uu[2])>>
         IN  IF vk[BinarySearch(ek, next)]
             THEN [visited_k |-> vk, polygon |-> ring]
             ELSE TraceWalk(vs, kk, ek, mark_visited(ek, vk, next).visited_k,
                            Append(ring, next[3]), vv, next[3], nvis + 2)

\* lines 166-279 as a function: the rings of layer kk traced from the first
\* unvisited edge on, appended to rings
RECURSIVE TraceRings(_, _, _, _, _)
TraceRings(vs, kk, ek, vk, rings) ==
    LET unvisited == {x \in 1..Len(ek) : ~vk[x]}
    IN  IF unvisited = {} THEN rings
        ELSE LET pos == CHOOSE x \in unvisited : \A y \in unvisited : x <= y
                 edge == ek[pos]
                 w == TraceWalk(vs, kk, ek, mark_visited(ek, vk, edge).visited_k,
                                <<edge[2], edge[3]>>, edge[2], edge[3],
                                Len(ek) - Cardinality(unvisited) + 2)
             IN  TraceRings(vs, kk, ek, w.visited_k,
                            Append(rings, simplify_polygon(antialias_polygon(w.polygon))))

\* the rings cell_voxels_to_polygons emits for layer kk of voxel set vs
LayerRings(vs, kk) ==
    LET ek == SelectSeq(SortSeq(CollectEdges(vs, vs), EdgeLess), LAMBDA e : e[1] = kk)
    IN  TraceRings(vs, kk, ek, [x \in 1..Len(ek) |-> FALSE], << >>)

\* the member voxels of layer kk alone
LayerOf(vs, kk) == {c \in vs : c[3] = kk}

\* the rings the call has returned are the rings LayerRings computes
LayerRingsAgree ==
    pc = "done" =>
        \A x \in 1..Len(multipolygons) :
            multipolygons[x][2] = LayerRings(voxels, multipolygons[x][1])

\* C18: the rings emitted for layer k are those emitted for the voxel set
\* that has the same members in layer k and none in any other layer
C18_RingsByLayerOnly ==
    pc = "done" =>
        \A x \in 1..Len(multipolygons) :
            multipolygons[x][2]
                = LayerRings(LayerOf(voxels, multipolygons[x][1]), multipolygons[x][1])

(***************************************************************************)
(* Consistency checks and the sampling phases                              *)
(***************************************************************************)
\* the calls made inside run_hexbin_sampler
SamplingOps == {"sample_global_params", "sample_cell_regions", "write_monitor"}

\* position x of the trace lies outside every sampling phase: every call of
\* run_hexbin_sampler before it has returned
BetweenPhases(x) ==
    Cardinality(Before("run_hexbin_sampler", x)) = Cardinality(Before("return", x))

\* C19: with consistency checking enabled, every double_resolution is
\* directly preceded by a check_consistency, one more check_consistency
\* follows the last sampling iteration and precedes the final outputs, a run
\* that completes has made Len(schedule) checks, and neither call is made
\* while a sampling phase is in progress
C19_ChecksBeforeDoublings ==
    check_consistency =>
        /\ \A x \in Positions("double_resolution") :
              /\ x > 1
              /\ trace[x - 1].op = "check_consistency"
              /\ BetweenPhases(x)
        /\ \A x \in Positions("check_consistency") :
              /\ BetweenPhases(x)
              /\ x > 1 /\ trace[x - 1].op = "return"
              /\ x < Len(trace) => trace[x + 1].op \in {"double_resolution", "write_output"}
        /\ \A x \in Positions("write_output") :
              /\ trace[x - 1].op = "check_consistency"
              /\ \A y \in DOMAIN trace : trace[y].op \in SamplingOps => y < x - 1
        /\ main_pc = "done" =>
              /\ Cardinality(Positions("check_consistency")) = Len(schedule)
              /\ Cardinality(Positions("double_resolution")) + 1
                    = Cardinality(Positions("check_consistency"))

\* a completed run over a schedule of three entries with checking enabled:
\* three checks, two of them before doublings
C19_Witness ==
    /\ main_pc = "done"
    /\ check_consistency
    /\ Len(schedule) = 3
    /\ Cardinality(Positions("check_consistency")) = 3
    /\ Cardinality(Positions("sample_cell_regions")) >= 3

\* a completed run over a schedule of one entry: the only check is the
\* final one
C19_WitnessSingle ==
    /\ main_pc = "done"
    /\ check_consistency
    /\ Len(schedule) = 1
    /\ Cardinality(Positions("check_consistency")) = 1
    /\ Positions("double_resolution") = {}

(***************************************************************************)
(* The number of iterations and the uncertainty tracker                    *)
(***************************************************************************)
\* args.schedule.iter().sum()
RECURSIVE total_iterations(_)
total_iterations(s) == IF s = << >> THEN 0 ELSE s[1] + total_iterations(Tail(s))

\* the calls in which the sampler is handed the uncertainty argument
SamplerCalls == Positions("sample_global_params") \cup Positions("sample_cell_regions")

\* the sampler calls that are handed the tracker, not None
Tracked == {x \in SamplerCalls : trace[x].uncertainty}

\* the call sample_global_params makes on entry of run_hexbin_sampler, before
\* the first iteration
EntryCalls == {x \in SamplerCalls : x > 1 /\ trace[x - 1].op = "run_hexbin_sampler"}

\* a run with recorded_samples above the last schedule entry aborts before
\* anything else happens
C20_Proviso ==
    recorded_samples > schedule[Len(schedule)] =>
        /\ main_pc \in {"args", "panic"}
        /\ trace = << >>

\* the iterations of the run add up to the schedule, and the iterations that
\* are handed the tracker are the last recorded_samples ones, with burn-in
\* off and after the last doubling
C20_Iterations ==
    /\ main_pc = "done" =>
          /\ total_steps = total_iterations(schedule)
          /\ Cardinality(Positions("sample_cell_regions")) = total_iterations(schedule)
          /\ Cardinality(Tracked \cap Positions("sample_cell_regions")) = recorded_samples
    /\ \A x \in Tracked :
          /\ ~trace[x].burnin
          /\ x > LastDoubling
          /\ trace[x].resolution = Len(schedule) - 1
          /\ trace[x].total_steps >= total_iterations(schedule) - recorded_samples
          /\ \A y \in SamplerCalls : y > x => y \in Tracked

\* C20 as stated: the tracker is handed to the sampler only during the
\* final recorded_samples iterations, never in a call outside an iteration
C20_TrackerOnlyInIterations ==
    /\ C20_Proviso
    /\ C20_Iterations
    /\ Tracked \cap EntryCalls = {}

\* C20 amended: as stated, except that the tracker is also handed to the
\* one sample_global_params call on entry of the recording phase, which
\* precedes the first recorded iteration and is made even when
\* recorded_samples is 0
C20_TrackerInRecordingPhase ==
    /\ C20_Proviso
    /\ C20_Iterations
    /\ Cardinality(Tracked \cap EntryCalls) <= 1
    /\ \A x \in Tracked \cap EntryCalls :
          /\ trace[x].op = "sample_global_params"
          /\ trace[x].total_steps = total_iterations(schedule) - recorded_samples
          /\ \A y \in Tracked : x <= y
    /\ main_pc = "done" =>
          /\ Cardinality(Tracked \cap EntryCalls) = 1
          /\ Cardinality(Tracked) = 2 * recorded_samples + 1

\* a completed run with burn-in phases, unrecorded and recorded iterations
\* in the last schedule entry
C20_Witness ==
    /\ main_pc = "done"
    /\ Len(schedule) = 3
    /\ schedule[1] > 0
    /\ schedule[2] > 0
    /\ recorded_samples > 0
    /\ schedule[3] > recorded_samples
    /\ total_steps = total_iterations(schedule)
    /\ Cardinality(Tracked) = 2 * recorded_samples + 1

\* a completed run with recorded_samples = 0 in which the sampler was handed
\* the tracker
C20_WitnessNoneRecorded ==
    /\ main_pc = "done"
    /\ recorded_samples = 0
    /\ Tracked # {}

(***************************************************************************)
(* Monitoring snapshots                                                    *)
(***************************************************************************)
\* the snapshots written with step index i in their file name
SnapshotsOf(i) == {x \in Positions("write_monitor") : trace[x].total_steps = i}

\* C21: with a monitoring path and a frequency f >= 1, one snapshot is
\* written for every finished iteration whose index, counted across all
\* phases, is a multiple of f and none for any other; each is written
\* directly after the sample_global_params call of that iteration, which
\* follows its region sampling; without a monitoring path no snapshot is
\* written
C21_SnapshotsAtMultiples ==
    /\ (monitor_cell_polygons /\ monitor_cell_polygons_freq >= 1) =>
          /\ \A i \in 0..(total_steps - 1) :
                Cardinality(SnapshotsOf(i))
                    = IF i % monitor_cell_polygons_freq = 0 THEN 1 ELSE 0
          /\ \A x \in Positions("write_monitor") :
                /\ trace[x].total_steps < total_steps
                /\ x > 2
                /\ trace[x - 1].op = "sample_global_params"
                /\ trace[x - 1].total_steps = trace[x].total_steps
                /\ trace[x - 2].op = "sample_cell_regions"
                /\ trace[x - 2].total_steps = trace[x].total_steps
                /\ x < Len(trace) => trace[x + 1].op \in {"sample_cell_regions", "return"}
    /\ ~monitor_cell_polygons => Positions("write_monitor") = {}

\* a completed run with a monitoring path and frequency 2 over two or more
\* phases: snapshots for the iterations 0 and 2, none for 1, the later one
\* in a later phase than the first
C21_Witness ==
    /\ main_pc = "done"
    /\ monitor_cell_polygons
    /\ monitor_cell_polygons_freq = 2
    /\ Len(schedule) >= 2
    /\ total_steps >= 3
    /\ SnapshotsOf(0) # {} /\ SnapshotsOf(1) = {} /\ SnapshotsOf(2) # {}
    /\ \E x \in SnapshotsOf(2), y \in Positions("return") :
          \A z \in SnapshotsOf(0) : z < y /\ y < x

\* a completed run of several iterations without a monitoring path
C21_WitnessNoPath ==
    /\ main_pc = "done"
    /\ ~monitor_cell_polygons
    /\ monitor_cell_polygons_freq = 1
    /\ total_steps >= 2
    /\ Positions("write_monitor") = {}

====
